---- MODULE Spec2Model ----
(***************************************************************************)
(* Model of src/pbrtexture/pbrtexture.cpp (class VulkanExample).           *)
(*                                                                         *)
(* Numbers.  The two shader scalars are IEEE-754 binary32 values.  Every   *)
(* value they can take is an integer multiple of 2^-30 (0.01f, 0.05f and   *)
(* 1.0f are, and a rounded sum of such multiples is one again), so a float *)
(* is modelled by the integer v * 2^30 and float addition by exact integer *)
(* addition followed by round-to-nearest-even to 24 significant bits.      *)
(* Light coordinates are kept in thousandths; the timer is kept in quarter *)
(* turns, where sine and cosine are exact.                                 *)
(***************************************************************************)
EXTENDS Integers, Sequences, FiniteSets, TLC

(* ----------------------------- bounds ---------------------------------- *)
\* number of swapchain images, i.e. of draw command buffers
NumImages == 2
\* both scalars may be away from 1.0f at the same time only while each is
\* within MaxJoint key presses of 1.0f; one scalar alone covers its range
MaxJoint == 0
\* under Spec each scalar stays within MaxParamSteps key presses of 1.0f
MaxParamSteps == 2

(* ------------------------ binary32 arithmetic -------------------------- *)
F32_ONE   == 1073741824        \* 1.0f   = 2^30 * 2^-30
F32_0_01  == 10737418          \* 0.01f  = 0x3C23D70A
F32_0_05  == 53687092          \* 0.05f  = 0x3D4CCCCD
F32_ZERO  == 0                 \* 0.0f

Abs(x) == IF x < 0 THEN 0 - x ELSE x

\* spacing of binary32 values around magnitude a, in units of 2^-30
Ulp(a) ==
    IF a < 16777216 THEN 1
    ELSE IF a < 33554432 THEN 2
    ELSE IF a < 67108864 THEN 4
    ELSE IF a < 134217728 THEN 8
    ELSE IF a < 268435456 THEN 16
    ELSE IF a < 536870912 THEN 32
    ELSE IF a < 1073741824 THEN 64
    ELSE 128

\* round an exact sum to the nearest binary32 value, ties to even
RoundF32(x) ==
    LET a == Abs(x)
        u == Ulp(a)
        q == a \div u
        r == a % u
        m == IF 2 * r < u THEN q
             ELSE IF 2 * r > u THEN q + 1
             ELSE IF q % 2 = 0 THEN q ELSE q + 1
    IN  IF x < 0 THEN 0 - (m * u) ELSE m * u

\* float + float
FAdd(a, b) == RoundF32(a + b)

\* glm::clamp(x, minVal, maxVal) = min(max(x, minVal), maxVal)
Max(a, b) == IF a < b THEN b ELSE a
Min(a, b) == IF b < a THEN b ELSE a
clamp(x, minVal, maxVal) == Min(Max(x, minVal), maxVal)

(* ------------------------------ data ----------------------------------- *)
VK_SUCCESS == "VK_SUCCESS"

\* key codes of the framework's key table that keyPressed is called with;
\* KEY_P stands for every key code keyPressed has no case for
KeyCodes == {"KEY_SPACE", "GAMEPAD_BUTTON_X", "KEY_F2", "KEY_F3", "KEY_F4",
             "KEY_F5", "KEY_P"}

\* std::vector<std::string> filenames of loadAssets, in push_back order
ObjectFiles == <<"geosphere.obj", "roundedcube.dae", "venus.fbx">>

MaterialNames == <<"plastic", "metal", "stone">>
TextureSlots == {"albedo", "normal", "metallic", "roughness", "ao"}
BufferNames == <<"object", "skybox", "params">>

\* positions the framework's camera takes (thousandths); the first is the
\* one the constructor sets
CameraPositions == {<<4000, 2500, -400>>, <<0, 2500, -400>>}

\* timer values, in quarter turns (timer * 360 degrees = 0, 90, 180, 270)
TimerValues == {0, 1, 2, 3}
Sin20(t) == CASE t = 0 -> 0 [] t = 1 -> 20000 [] t = 2 -> 0 [] t = 3 -> -20000
Cos20(t) == CASE t = 0 -> 20000 [] t = 1 -> 0 [] t = 2 -> -20000 [] t = 3 -> 0

VARIABLES
    pc,               \* position in prepare(): the next setup step, or "running"
    prepared,         \* VulkanExampleBase::prepared
    paused,           \* VulkanExampleBase::paused
    timer,            \* VulkanExampleBase::timer
    camera,           \* VulkanExampleBase::camera
    viewUpdated,      \* VulkanExampleBase::viewUpdated
    models,           \* Meshes models
    materials,        \* Materials materials
    uniformBuffers,   \* uniformBuffers.{object,skybox,params}
    uboMatrices,      \* UBOMatrices uboMatrices
    uboParams,        \* UBOParams uboParams
    pipelineLayout, pipeline, descriptorSetLayout,
    descriptorPool,   \* VulkanExampleBase::descriptorPool
    descriptorSets,   \* contents of the allocated descriptor sets, by handle
    drawCmdBuffers,   \* VulkanExampleBase::drawCmdBuffers
    submitted,        \* render-pass commands of the last frame given to vkQueueSubmit
    failedCall,       \* the API call that returned an error, or "none"
    aborted           \* the fatal-abort check has ended the program

vars == <<pc, prepared, paused, timer, camera, viewUpdated, models, materials,
          uniformBuffers, uboMatrices, uboParams, pipelineLayout, pipeline,
          descriptorSetLayout, descriptorPool, descriptorSets, drawCmdBuffers,
          submitted, failedCall, aborted>>

\* A handle or a memory block is <<>> while it does not exist or holds
\* nothing, and <<v>> once it holds v.

\* glm::vec4(-p, -p*0.5f, -p, 1.0f) etc. with p = 15.0f
PausedLights ==
    << <<-15000, -7500, -15000, 1000>>,
       <<-15000, -7500,  15000, 1000>>,
       << 15000, -7500,  15000, 1000>>,
       << 15000, -7500, -15000, 1000>> >>

\* struct members as the constructor leaves them
Init ==
    /\ pc = "VulkanExampleBase::prepare"
    /\ prepared = FALSE
    /\ paused = TRUE
    /\ timer = 0
    /\ camera = [position |-> <<4000, 2500, -400>>, rotation |-> <<-32000, 85000, 0>>]
    /\ viewUpdated = FALSE
    /\ models = [skybox |-> <<>>, objects |-> <<>>, objectIndex |-> 0]
    /\ materials = <<>>
    /\ uniformBuffers = [b \in {"object", "skybox", "params"} |->
                            [created |-> FALSE, mapped |-> FALSE, data |-> <<>>]]
    /\ uboMatrices = <<>>
    /\ uboParams = [lights |-> <<>>, roughness |-> F32_ONE, metallic |-> F32_ONE]
    /\ pipelineLayout = <<>>
    /\ pipeline = <<>>
    /\ descriptorSetLayout = <<>>
    /\ descriptorPool = <<>>
    /\ descriptorSets = <<>>
    /\ drawCmdBuffers = <<>>
    /\ submitted = <<>>
    /\ failedCall = "none"
    /\ aborted = FALSE

(* --------------------- the fatal-abort check --------------------------- *)
\* VK_CHECK_RESULT(f): the program ends unless f returned VK_SUCCESS
VK_CHECK_RESULT(res) == res # VK_SUCCESS

\* the result of the k-th result-returning call of a function when its
\* failAt-th call is the one that fails (failAt = 0: none fails)
Result(k, failAt) == IF k = failAt THEN "VK_ERROR" ELSE VK_SUCCESS

(* ------------------------- loadAssets ---------------------------------- *)
\* PBRMaterial(name, path, albedo, normals, metallic, roughness, ao, ...)
PBRMaterial(name, albedo, normals, metallic, roughness, ao) ==
    [name |-> name,
     textures |-> [albedo |-> albedo, normal |-> normals, metallic |-> metallic,
                   roughness |-> roughness, ao |-> ao],
     descriptorSet |-> 0]

\* scale OBJ_DIM * (file == "venus.fbx" ? 3.0f : 1.0f), in thousandths
OBJ_DIM == 50
ModelOf(file) ==
    [file |-> file, scale |-> OBJ_DIM * (IF file = "venus.fbx" THEN 3 ELSE 1)]

loadAssets ==
    /\ pc = "loadAssets" /\ ~aborted
    /\ models' = [skybox |-> <<"cube.obj">>,
                  objects |-> [i \in 1..Len(ObjectFiles) |-> ModelOf(ObjectFiles[i])],
                  objectIndex |-> models.objectIndex]
    /\ materials' =
         [plastic |-> PBRMaterial("plastic",
                        "scuffed_plastic_albedo_bc3.ktx", "scuffed_plastic_normals_bc3.ktx",
                        "scuffed_plastic_metallic_r8.ktx", "scuffed_plastic_roughness_r8.ktx",
                        "scuffed_plastic_ao_r8.ktx"),
          metal |-> PBRMaterial("metal",
                        "greasy_metal_albedo_bc3.ktx", "greasy_metal_normals_bc3.ktx",
                        "greasy_metal_metallic_r8.ktx", "greasy_metal_roughness_r8.ktx",
                        "_dummy_ao_r8.ktx"),
          stone |-> PBRMaterial("stone",
                        "bricks_albedo_bc3.ktx", "bricks_normals_bc3.ktx",
                        "_dummy_metallic_r8.ktx", "bricks_roughness_r8.ktx",
                        "bricks_ao_r8.ktx")]
    /\ pc' = "prepareUniformBuffers"
    /\ UNCHANGED <<prepared, paused, timer, camera, viewUpdated, uniformBuffers,
                   uboMatrices, uboParams, pipelineLayout, pipeline,
                   descriptorSetLayout, descriptorPool, descriptorSets,
                   drawCmdBuffers, submitted, failedCall, aborted>>

(* ---------------------- uniform buffer contents ------------------------ *)
\* camera.matrices.perspective and camera.matrices.view, as the framework's
\* camera derives them from its perspective parameters, position and rotation
Perspective(cam) == <<"perspective", 60, 100, 256000>>
View(cam) == <<"view", cam.position, cam.rotation>>

\* the block updateUniformBuffers copies to uniformBuffers.object
ObjectMatrices(cam, objectIndex) ==
    [projection |-> Perspective(cam),
     view |-> View(cam),
     model |-> <<"rotateY", -90 + (IF objectIndex = 1 THEN 45 ELSE 0)>>,
     camPos |-> <<0 - cam.position[1], 0 - cam.position[2], 0 - cam.position[3]>>]

\* the block updateUniformBuffers copies to uniformBuffers.skybox, which is
\* also what uboMatrices holds when updateUniformBuffers returns
SkyboxMatrices(cam, objectIndex) ==
    [ObjectMatrices(cam, objectIndex) EXCEPT !.model = <<"mat3", View(cam)>>]

\* uboParams.lights as updateLights leaves it
Lights(isPaused, t) ==
    IF isPaused THEN PausedLights
    ELSE [PausedLights EXCEPT
            ![1] = <<Sin20(t), -7500, Cos20(t), 1000>>,
            ![2] = <<Cos20(t), Sin20(t), 15000, 1000>>]

\* memcpy(buffer.mapped, &block, sizeof(block))
Memcpy(bufs, b, block) == [bufs EXCEPT ![b].data = <<block>>]

\* updateUniformBuffers: the mapped buffers afterwards
updateUniformBuffers(bufs, cam, objectIndex) ==
    Memcpy(Memcpy(bufs, "object", ObjectMatrices(cam, objectIndex)),
           "skybox", SkyboxMatrices(cam, objectIndex))

\* updateLights: uboParams afterwards (then copied to uniformBuffers.params)
updateLights(params, isPaused, t) == [params EXCEPT !.lights = Lights(isPaused, t)]

\* updateParams: the mapped buffers afterwards
updateParams(bufs, params) == Memcpy(bufs, "params", params)

(* -------------------------- prepare() ---------------------------------- *)
\* VulkanExampleBase::prepare(): of the framework's setup, the creation of
\* one draw command buffer per swapchain image
basePrepare ==
    /\ pc = "VulkanExampleBase::prepare" /\ ~aborted
    /\ drawCmdBuffers' = [i \in 1..NumImages |-> [state |-> "initial", cmds |-> <<>>]]
    /\ pc' = "loadAssets"
    /\ UNCHANGED <<prepared, paused, timer, camera, viewUpdated, models, materials,
                   uniformBuffers, uboMatrices, uboParams, pipelineLayout, pipeline,
                   descriptorSetLayout, descriptorPool, descriptorSets,
                   submitted, failedCall, aborted>>

\* the result-returning calls of prepareUniformBuffers, in order
UniformBufferCalls ==
    <<"createBuffer(object)", "createBuffer(skybox)", "createBuffer(params)",
      "map(object)", "map(skybox)", "map(params)">>

\* mutant: the three map() calls are made without VK_CHECK_RESULT
prepareUniformBuffers_MapUnchecked(failAt) ==
    LET ok(k) == \A j \in 1..k : j <= 3 => ~VK_CHECK_RESULT(Result(j, failAt))
        all == ok(Len(UniformBufferCalls))
        bufs == [b \in DOMAIN uniformBuffers |->
                   LET i == CHOOSE n \in 1..3 : BufferNames[n] = b
                   IN  [created |-> ok(i), mapped |-> ok(i + 3) /\ failAt # i + 3,
                        data |-> <<>>]]
        params == updateLights(uboParams, paused, timer)
    IN
    /\ pc = "prepareUniformBuffers" /\ ~aborted
    /\ failedCall' = IF failAt = 0 THEN "none" ELSE UniformBufferCalls[failAt]
    /\ aborted' = ~all
    /\ IF all
       THEN /\ uboMatrices' = SkyboxMatrices(camera, models.objectIndex)
            /\ uboParams' = params
            /\ uniformBuffers' =
                 updateParams(updateUniformBuffers(bufs, camera, models.objectIndex), params)
            /\ pc' = "setupDescriptorSetLayout"
       ELSE /\ uniformBuffers' = bufs
            /\ UNCHANGED <<uboMatrices, uboParams, pc>>
    /\ UNCHANGED <<prepared, paused, timer, camera, viewUpdated, models, materials,
                   pipelineLayout, pipeline, descriptorSetLayout, descriptorPool,
                   descriptorSets, drawCmdBuffers, submitted>>

\* mutant: prepare() goes from prepareUniformBuffers() straight to
\* preparePipelines(), without setupDescriptorSetLayout()
prepareUniformBuffers_ThenPipelines(failAt) ==
    LET ok(k) == \A j \in 1..k : ~VK_CHECK_RESULT(Result(j, failAt))
        all == ok(Len(UniformBufferCalls))
        bufs == [b \in DOMAIN uniformBuffers |->
                   LET i == CHOOSE n \in 1..3 : BufferNames[n] = b
                   IN  [created |-> ok(i), mapped |-> ok(i + 3), data |-> <<>>]]
        params == updateLights(uboParams, paused, timer)
    IN
    /\ pc = "prepareUniformBuffers" /\ ~aborted
    /\ failedCall' = IF failAt = 0 THEN "none" ELSE UniformBufferCalls[failAt]
    /\ aborted' = ~all
    /\ IF all
       THEN /\ uboMatrices' = SkyboxMatrices(camera, models.objectIndex)
            /\ uboParams' = params
            /\ uniformBuffers' =
                 updateParams(updateUniformBuffers(bufs, camera, models.objectIndex), params)
            /\ pc' = "preparePipelines"
       ELSE /\ uniformBuffers' = bufs
            /\ UNCHANGED <<uboMatrices, uboParams, pc>>
    /\ UNCHANGED <<prepared, paused, timer, camera, viewUpdated, models, materials,
                   pipelineLayout, pipeline, descriptorSetLayout, descriptorPool,
                   descriptorSets, drawCmdBuffers, submitted>>

prepareUniformBuffers(failAt) ==
    LET \* the call k is made and returns VK_SUCCESS
        ok(k) == \A j \in 1..k : ~VK_CHECK_RESULT(Result(j, failAt))
        all == ok(Len(UniformBufferCalls))
        bufs == [b \in DOMAIN uniformBuffers |->
                   LET i == CHOOSE n \in 1..3 : BufferNames[n] = b
                   IN  [created |-> ok(i), mapped |-> ok(i + 3), data |-> <<>>]]
        params == updateLights(uboParams, paused, timer)
    IN
    /\ pc = "prepareUniformBuffers" /\ ~aborted
    /\ failedCall' = IF failAt = 0 THEN "none" ELSE UniformBufferCalls[failAt]
    /\ aborted' = ~all
    /\ IF all
       THEN /\ uboMatrices' = SkyboxMatrices(camera, models.objectIndex)
            /\ uboParams' = params
            /\ uniformBuffers' =
                 updateParams(updateUniformBuffers(bufs, camera, models.objectIndex), params)
            /\ pc' = "setupDescriptorSetLayout"
       ELSE /\ uniformBuffers' = bufs
            /\ UNCHANGED <<uboMatrices, uboParams, pc>>
    /\ UNCHANGED <<prepared, paused, timer, camera, viewUpdated, models, materials,
                   pipelineLayout, pipeline, descriptorSetLayout, descriptorPool,
                   descriptorSets, drawCmdBuffers, submitted>>

\* setLayoutBindings: descriptor type per binding 0..6
SetLayoutBindings ==
    [b \in 0..6 |-> IF b <= 1 THEN "UNIFORM_BUFFER" ELSE "COMBINED_IMAGE_SAMPLER"]

DescriptorLayoutCalls == <<"vkCreateDescriptorSetLayout", "vkCreatePipelineLayout">>

setupDescriptorSetLayout(failAt) ==
    LET ok(k) == \A j \in 1..k : ~VK_CHECK_RESULT(Result(j, failAt))
        layout == IF ok(1) THEN <<SetLayoutBindings>> ELSE <<>>
    IN
    /\ pc = "setupDescriptorSetLayout" /\ ~aborted
    /\ failedCall' = IF failAt = 0 THEN "none" ELSE DescriptorLayoutCalls[failAt]
    /\ aborted' = ~ok(2)
    /\ descriptorSetLayout' = layout
    /\ pipelineLayout' =
         IF ok(2)
         THEN <<[setLayouts |-> layout,
                 pushConstantRanges |-> <<[stage |-> "VERTEX", size |-> 12, offset |-> 0]>>]>>
         ELSE <<>>
    /\ pc' = IF ok(2) THEN "preparePipelines" ELSE pc
    /\ UNCHANGED <<prepared, paused, timer, camera, viewUpdated, models, materials,
                   uniformBuffers, uboMatrices, uboParams, pipeline, descriptorPool,
                   descriptorSets, drawCmdBuffers, submitted>>

preparePipelines(failAt) ==
    LET ok == ~VK_CHECK_RESULT(Result(1, failAt))
    IN
    /\ pc = "preparePipelines" /\ ~aborted
    /\ failedCall' = IF failAt = 0 THEN "none" ELSE "vkCreateGraphicsPipelines"
    /\ aborted' = ~ok
    /\ pipeline' =
         IF ok
         THEN <<[layout |-> pipelineLayout,
                 shaders |-> <<"pbrtexture.vert.spv", "pbrtexture.frag.spv">>,
                 cullMode |-> "FRONT", depthTest |-> TRUE, depthWrite |-> TRUE]>>
         ELSE <<>>
    /\ pc' = IF ok THEN "setupDescriptorSets" ELSE pc
    /\ UNCHANGED <<prepared, paused, timer, camera, viewUpdated, models, materials,
                   uniformBuffers, uboMatrices, uboParams, pipelineLayout,
                   descriptorSetLayout, descriptorPool, descriptorSets,
                   drawCmdBuffers, submitted>>

(* ----------------------- setupDescriptorSets --------------------------- *)
\* descriptorPoolCreateInfo(poolSizes, 3) with 4*3 uniform buffers and 5*3
\* combined image samplers
DescriptorPoolInfo == [maxSets |-> 3, uniformBuffers |-> 4 * 3, imageSamplers |-> 5 * 3]

\* vkAllocateDescriptorSets can serve the n-th set of descriptorSetLayout
PoolHasRoom(pool, n) ==
    /\ n <= pool.maxSets
    /\ 2 * n <= pool.uniformBuffers
    /\ 5 * n <= pool.imageSamplers

\* &mat->textures.<slot>.descriptor
TextureOf(mats, m, slot) == <<"texture", m, slot, mats[m].textures[slot]>>

\* mutant: every set is written with the textures of the first material
writeDescriptorSets_FirstMaterial(mats, m) ==
    [b \in 0..6 |->
       CASE b = 0 -> <<"buffer", "object">>
         [] b = 1 -> <<"buffer", "params">>
         [] b = 2 -> TextureOf(mats, MaterialNames[1], "albedo")
         [] b = 3 -> TextureOf(mats, MaterialNames[1], "normal")
         [] b = 4 -> TextureOf(mats, MaterialNames[1], "roughness")
         [] b = 5 -> TextureOf(mats, MaterialNames[1], "metallic")
         [] b = 6 -> TextureOf(mats, MaterialNames[1], "ao")]

\* writeDescriptorSets of one material: what each binding refers to
writeDescriptorSets(mats, m) ==
    [b \in 0..6 |->
       CASE b = 0 -> <<"buffer", "object">>
         [] b = 1 -> <<"buffer", "params">>
         [] b = 2 -> TextureOf(mats, m, "albedo")
         [] b = 3 -> TextureOf(mats, m, "normal")
         [] b = 4 -> TextureOf(mats, m, "roughness")
         [] b = 5 -> TextureOf(mats, m, "metallic")
         [] b = 6 -> TextureOf(mats, m, "ao")]

setupDescriptorSets(failAt) ==
    LET \* call 1 is vkCreateDescriptorPool, call i + 1 the allocation for mats[i]
        res(k) == IF k > 1 /\ ~PoolHasRoom(DescriptorPoolInfo, k - 1)
                  THEN "VK_ERROR_OUT_OF_POOL_MEMORY" ELSE Result(k, failAt)
        ok(k) == \A j \in 1..k : ~VK_CHECK_RESULT(res(j))
        n == Len(MaterialNames)
        \* the materials whose set was allocated, in the order of mats
        done == {i \in 1..n : ok(i + 1)}
        bad == {k \in 1..(n + 1) : res(k) # VK_SUCCESS}
        first == IF bad = {} THEN 0 ELSE CHOOSE k \in bad : \A j \in bad : k <= j
    IN
    /\ pc = "setupDescriptorSets" /\ ~aborted
    /\ failedCall' = IF first = 0 THEN "none"
                     ELSE IF first = 1 THEN "vkCreateDescriptorPool"
                     ELSE "vkAllocateDescriptorSets"
    /\ aborted' = ~ok(n + 1)
    /\ descriptorPool' = IF ok(1) THEN <<DescriptorPoolInfo>> ELSE <<>>
    /\ descriptorSets' =
         [h \in 1..Cardinality(done) |-> writeDescriptorSets(materials, MaterialNames[h])]
    /\ materials' =
         [m \in DOMAIN materials |->
            LET i == CHOOSE j \in 1..n : MaterialNames[j] = m
            IN  [materials[m] EXCEPT !.descriptorSet = IF i \in done THEN i ELSE 0]]
    /\ pc' = IF ok(n + 1) THEN "buildCommandBuffers" ELSE pc
    /\ UNCHANGED <<prepared, paused, timer, camera, viewUpdated, models,
                   uniformBuffers, uboMatrices, uboParams, pipelineLayout, pipeline,
                   descriptorSetLayout, drawCmdBuffers, submitted>>

(* ----------------------- buildCommandBuffers --------------------------- *)
\* models.objects[models.objectIndex]; an index past the end reads whatever
\* lies behind the vector
ObjectAt(mdls) ==
    IF mdls.objectIndex < Len(mdls.objects)
    THEN mdls.objects[mdls.objectIndex + 1]
    ELSE [file |-> "<out of bounds>", scale |-> 0]

\* one material's draw: descriptor set, push constant, indexed draw
DrawOf(mdls, set, z) ==
    << <<"vkCmdBindDescriptorSets", set>>,
       <<"vkCmdPushConstants", <<0, 0, z>> >>,
       <<"vkCmdDrawIndexed", ObjectAt(mdls).file>> >>

\* the commands recorded into drawCmdBuffers[i] (pos.z in thousandths)
RecordedCommands(i, mdls, mats, pipe) ==
    << <<"vkCmdBeginRenderPass", i>>,
       <<"vkCmdSetViewport", 0>>,
       <<"vkCmdSetScissor", 0>>,
       <<"vkCmdBindPipeline", pipe>>,
       <<"vkCmdBindVertexBuffers", ObjectAt(mdls).file>>,
       <<"vkCmdBindIndexBuffer", ObjectAt(mdls).file>> >>
    \o DrawOf(mdls, mats.plastic.descriptorSet, 0)
    \o DrawOf(mdls, mats.metal.descriptorSet, 2500)
    \o DrawOf(mdls, mats.stone.descriptorSet, -2500)
    \o << <<"vkCmdEndRenderPass", 0>> >>

\* buildCommandBuffers: drawCmdBuffers afterwards.  Call 2i-1 is
\* vkBeginCommandBuffer and call 2i is vkEndCommandBuffer of buffer i.
buildCommandBuffers(bufs, mdls, mats, pipe, failAt) ==
    LET ok(k) == \A j \in 1..k : ~VK_CHECK_RESULT(Result(j, failAt))
    IN  [i \in DOMAIN bufs |->
           IF ok(2 * i)
           THEN [state |-> "executable", cmds |-> RecordedCommands(i, mdls, mats, pipe)]
           ELSE IF ok(2 * i - 1)
           THEN [state |-> "invalid", cmds |-> RecordedCommands(i, mdls, mats, pipe)]
           ELSE bufs[i]]

BuildCalls(failAt) ==
    IF failAt = 0 THEN "none"
    ELSE IF failAt % 2 = 1 THEN "vkBeginCommandBuffer" ELSE "vkEndCommandBuffer"

\* the last two statements of prepare(): buildCommandBuffers(); prepared = true
prepareBuild(failAt) ==
    /\ pc = "buildCommandBuffers" /\ ~aborted
    /\ drawCmdBuffers' = buildCommandBuffers(drawCmdBuffers, models, materials, pipeline, failAt)
    /\ failedCall' = BuildCalls(failAt)
    /\ aborted' = \E k \in 1..(2 * NumImages) : VK_CHECK_RESULT(Result(k, failAt))
    /\ prepared' = ~aborted'
    /\ pc' = IF aborted' THEN pc ELSE "running"
    /\ UNCHANGED <<paused, timer, camera, viewUpdated, models, materials,
                   uniformBuffers, uboMatrices, uboParams, pipelineLayout, pipeline,
                   descriptorSetLayout, descriptorPool, descriptorSets, submitted>>

(* --------------------------- the frame loop ---------------------------- *)
\* VulkanExampleBase::checkCommandBuffers(): every handle is valid
checkCommandBuffers(bufs) == \A i \in DOMAIN bufs : bufs[i].state # "null"

\* destroyCommandBuffers(); createCommandBuffers()
createCommandBuffers(bufs) == [i \in DOMAIN bufs |-> [state |-> "initial", cmds |-> <<>>]]

\* reBuildCommandBuffers: drawCmdBuffers afterwards
reBuildCommandBuffers(bufs, mdls, mats, pipe, failAt) ==
    buildCommandBuffers(IF ~checkCommandBuffers(bufs) THEN createCommandBuffers(bufs) ELSE bufs,
                        mdls, mats, pipe, failAt)

\* the commands of a recorded buffer that follow vkCmdBeginRenderPass
InRenderPass(cmds) == Tail(cmds)

\* mutant: updateLights is called whether paused or not
render_LightsWhenPaused(img, failAt) ==
    /\ pc # "VulkanExampleBase::prepare" /\ ~aborted /\ ~viewUpdated
    /\ IF ~prepared
       THEN UNCHANGED vars
       ELSE /\ failedCall' = IF failAt = 0 THEN "none" ELSE "vkQueueSubmit"
            /\ aborted' = VK_CHECK_RESULT(Result(1, failAt))
            /\ submitted' = IF aborted' THEN submitted ELSE InRenderPass(drawCmdBuffers[img].cmds)
            /\ IF ~aborted'
               THEN /\ uboParams' = updateLights(uboParams, paused, timer)
                    /\ uniformBuffers' = updateParams(uniformBuffers, uboParams')
               ELSE UNCHANGED <<uboParams, uniformBuffers>>
            /\ UNCHANGED <<pc, prepared, paused, timer, camera, viewUpdated, models,
                           materials, uboMatrices, pipelineLayout, pipeline,
                           descriptorSetLayout, descriptorPool, descriptorSets,
                           drawCmdBuffers>>

\* render(), for the swapchain image img that prepareFrame acquires.  The
\* framework's frame loop calls viewChanged() first when viewUpdated is set.
render(img, failAt) ==
    /\ pc # "VulkanExampleBase::prepare" /\ ~aborted /\ ~viewUpdated
    /\ IF ~prepared
       THEN UNCHANGED vars
       ELSE /\ failedCall' = IF failAt = 0 THEN "none" ELSE "vkQueueSubmit"
            /\ aborted' = VK_CHECK_RESULT(Result(1, failAt))
            /\ submitted' = IF aborted' THEN submitted ELSE InRenderPass(drawCmdBuffers[img].cmds)
            /\ IF ~aborted' /\ ~paused
               THEN /\ uboParams' = updateLights(uboParams, paused, timer)
                    /\ uniformBuffers' = updateParams(uniformBuffers, uboParams')
               ELSE UNCHANGED <<uboParams, uniformBuffers>>
            /\ UNCHANGED <<pc, prepared, paused, timer, camera, viewUpdated, models,
                           materials, uboMatrices, pipelineLayout, pipeline,
                           descriptorSetLayout, descriptorPool, descriptorSets,
                           drawCmdBuffers>>

\* mutant: the matrices are recomputed but not copied to the mapped buffers
viewChanged_NoCopy ==
    /\ pc = "running" /\ ~aborted /\ viewUpdated
    /\ viewUpdated' = FALSE
    /\ uboMatrices' = SkyboxMatrices(camera, models.objectIndex)
    /\ UNCHANGED <<pc, prepared, paused, timer, camera, models, materials, uboParams,
                   uniformBuffers, pipelineLayout, pipeline, descriptorSetLayout,
                   descriptorPool, descriptorSets, drawCmdBuffers, submitted,
                   failedCall, aborted>>

\* viewChanged(), called by the framework when viewUpdated is set
viewChanged ==
    /\ pc = "running" /\ ~aborted /\ viewUpdated
    /\ viewUpdated' = FALSE
    /\ uniformBuffers' = updateUniformBuffers(uniformBuffers, camera, models.objectIndex)
    /\ uboMatrices' = SkyboxMatrices(camera, models.objectIndex)
    /\ UNCHANGED <<pc, prepared, paused, timer, camera, models, materials, uboParams,
                   pipelineLayout, pipeline, descriptorSetLayout, descriptorPool,
                   descriptorSets, drawCmdBuffers, submitted, failedCall, aborted>>

\* mutant: the wrap test is > instead of >=
NextObjectIndex_WrapLate(mdls) ==
    IF mdls.objectIndex + 1 > Len(mdls.objects) THEN 0 ELSE mdls.objectIndex + 1

\* mutant: the index wraps one object early
NextObjectIndex_WrapEarly(mdls) ==
    IF mdls.objectIndex + 2 >= Len(mdls.objects) THEN 0 ELSE mdls.objectIndex + 1

\* models.objectIndex after toggleObject
NextObjectIndex(mdls) ==
    IF mdls.objectIndex + 1 >= Len(mdls.objects) THEN 0 ELSE mdls.objectIndex + 1

\* mutant: the index changes without reBuildCommandBuffers()
toggleObject_NoRebuild(failAt) ==
    /\ failAt = 0
    /\ models' = [models EXCEPT !.objectIndex = NextObjectIndex(models)]
    /\ uniformBuffers' = updateUniformBuffers(uniformBuffers, camera, models'.objectIndex)
    /\ uboMatrices' = SkyboxMatrices(camera, models'.objectIndex)
    /\ UNCHANGED <<pc, prepared, paused, timer, camera, viewUpdated, materials, uboParams,
                   pipelineLayout, pipeline, descriptorSetLayout, descriptorPool,
                   descriptorSets, submitted, drawCmdBuffers, failedCall, aborted>>

toggleObject(failAt) ==
    /\ models' = [models EXCEPT !.objectIndex = NextObjectIndex(models)]
    /\ uniformBuffers' = updateUniformBuffers(uniformBuffers, camera, models'.objectIndex)
    /\ uboMatrices' = SkyboxMatrices(camera, models'.objectIndex)
    /\ drawCmdBuffers' = reBuildCommandBuffers(drawCmdBuffers, models', materials, pipeline, failAt)
    /\ failedCall' = BuildCalls(failAt)
    /\ aborted' = \E k \in 1..(2 * NumImages) : VK_CHECK_RESULT(Result(k, failAt))
    /\ UNCHANGED <<pc, prepared, paused, timer, camera, viewUpdated, materials, uboParams,
                   pipelineLayout, pipeline, descriptorSetLayout, descriptorPool,
                   descriptorSets, submitted>>

\* mutant: roughness is clamped to [0.0f, 1.0f] like metallic
changeRoughnessFactor_ClampZero(delta) ==
    /\ uboParams' = [uboParams EXCEPT
                       !.roughness = clamp(FAdd(uboParams.roughness, delta), F32_ZERO, F32_ONE)]
    /\ uniformBuffers' = updateParams(uniformBuffers, uboParams')
    /\ UNCHANGED <<pc, prepared, paused, timer, camera, viewUpdated, models, materials,
                   uboMatrices, pipelineLayout, pipeline, descriptorSetLayout,
                   descriptorPool, descriptorSets, drawCmdBuffers, submitted,
                   failedCall, aborted>>

changeRoughnessFactor(delta) ==
    /\ uboParams' = [uboParams EXCEPT
                       !.roughness = clamp(FAdd(uboParams.roughness, delta), F32_0_05, F32_ONE)]
    /\ uniformBuffers' = updateParams(uniformBuffers, uboParams')
    /\ UNCHANGED <<pc, prepared, paused, timer, camera, viewUpdated, models, materials,
                   uboMatrices, pipelineLayout, pipeline, descriptorSetLayout,
                   descriptorPool, descriptorSets, drawCmdBuffers, submitted,
                   failedCall, aborted>>

\* mutant: the sum is stored without the clamp
changeMetallicFactor_Unclamped(delta) ==
    /\ uboParams' = [uboParams EXCEPT !.metallic = FAdd(uboParams.metallic, delta)]
    /\ uniformBuffers' = updateParams(uniformBuffers, uboParams')
    /\ UNCHANGED <<pc, prepared, paused, timer, camera, viewUpdated, models, materials,
                   uboMatrices, pipelineLayout, pipeline, descriptorSetLayout,
                   descriptorPool, descriptorSets, drawCmdBuffers, submitted,
                   failedCall, aborted>>

\* mutant: the new value stays in uboParams, updateParams() is not called
changeMetallicFactor_NoUpdateParams(delta) ==
    /\ uboParams' = [uboParams EXCEPT
                       !.metallic = clamp(FAdd(uboParams.metallic, delta), F32_ZERO, F32_ONE)]
    /\ UNCHANGED <<pc, prepared, paused, timer, camera, viewUpdated, models, materials,
                   uniformBuffers, uboMatrices, pipelineLayout, pipeline,
                   descriptorSetLayout, descriptorPool, descriptorSets, drawCmdBuffers,
                   submitted, failedCall, aborted>>

changeMetallicFactor(delta) ==
    /\ uboParams' = [uboParams EXCEPT
                       !.metallic = clamp(FAdd(uboParams.metallic, delta), F32_ZERO, F32_ONE)]
    /\ uniformBuffers' = updateParams(uniformBuffers, uboParams')
    /\ UNCHANGED <<pc, prepared, paused, timer, camera, viewUpdated, models, materials,
                   uboMatrices, pipelineLayout, pipeline, descriptorSetLayout,
                   descriptorPool, descriptorSets, drawCmdBuffers, submitted,
                   failedCall, aborted>>

\* mutant: the F3 and F4 cases call each other's function
keyPressed_F3F4Swapped(keyCode, failAt) ==
    /\ pc = "running" /\ ~aborted
    /\ \/ keyCode \in {"KEY_SPACE", "GAMEPAD_BUTTON_X"} /\ toggleObject(failAt)
       \/ keyCode = "KEY_F2" /\ failAt = 0 /\ changeRoughnessFactor(0 - F32_0_01)
       \/ keyCode = "KEY_F4" /\ failAt = 0 /\ changeRoughnessFactor(F32_0_01)
       \/ keyCode = "KEY_F3" /\ failAt = 0 /\ changeMetallicFactor(0 - F32_0_01)
       \/ keyCode = "KEY_F5" /\ failAt = 0 /\ changeMetallicFactor(F32_0_01)
       \/ /\ keyCode \notin {"KEY_SPACE", "GAMEPAD_BUTTON_X", "KEY_F2", "KEY_F3",
                             "KEY_F4", "KEY_F5"}
          /\ failAt = 0
          /\ UNCHANGED vars

\* keyPressed(keyCode); failAt matters to the keys that record commands
keyPressed(keyCode, failAt) ==
    /\ pc = "running" /\ ~aborted
    /\ \/ keyCode \in {"KEY_SPACE", "GAMEPAD_BUTTON_X"} /\ toggleObject(failAt)
       \/ keyCode = "KEY_F2" /\ failAt = 0 /\ changeRoughnessFactor(0 - F32_0_01)
       \/ keyCode = "KEY_F3" /\ failAt = 0 /\ changeRoughnessFactor(F32_0_01)
       \/ keyCode = "KEY_F4" /\ failAt = 0 /\ changeMetallicFactor(0 - F32_0_01)
       \/ keyCode = "KEY_F5" /\ failAt = 0 /\ changeMetallicFactor(F32_0_01)
       \/ /\ keyCode \notin {"KEY_SPACE", "GAMEPAD_BUTTON_X", "KEY_F2", "KEY_F3",
                             "KEY_F4", "KEY_F5"}
          /\ failAt = 0
          /\ UNCHANGED vars

(* ------------------- what the framework does ---------------------------- *)
\* the pause key: paused = !paused
togglePause ==
    /\ pc = "running" /\ ~aborted
    /\ paused' = ~paused
    /\ UNCHANGED <<pc, prepared, timer, camera, viewUpdated, models, materials,
                   uniformBuffers, uboMatrices, uboParams, pipelineLayout, pipeline,
                   descriptorSetLayout, descriptorPool, descriptorSets, drawCmdBuffers,
                   submitted, failedCall, aborted>>

\* the frame loop advances the timer while not paused
timerTick ==
    /\ pc = "running" /\ ~aborted /\ ~paused
    /\ timer' \in TimerValues \ {timer}
    /\ UNCHANGED <<pc, prepared, paused, camera, viewUpdated, models, materials,
                   uniformBuffers, uboMatrices, uboParams, pipelineLayout, pipeline,
                   descriptorSetLayout, descriptorPool, descriptorSets, drawCmdBuffers,
                   submitted, failedCall, aborted>>

\* mouse and movement keys move the camera and set viewUpdated
cameraMove ==
    /\ pc = "running" /\ ~aborted
    /\ \E p \in CameraPositions \ {camera.position} :
         camera' = [camera EXCEPT !.position = p]
    /\ viewUpdated' = TRUE
    /\ UNCHANGED <<pc, prepared, paused, timer, models, materials,
                   uniformBuffers, uboMatrices, uboParams, pipelineLayout, pipeline,
                   descriptorSetLayout, descriptorPool, descriptorSets, drawCmdBuffers,
                   submitted, failedCall, aborted>>

(* --------------------------- specifications ---------------------------- *)
\* number of 0.01f steps that v lies below 1.0f
Away(v) == (F32_ONE - v + (F32_0_01 \div 2)) \div F32_0_01

\* Spec, SpecFail: each scalar is kept within MaxParamSteps steps of 1.0f
KeyInRange(keyCode) ==
    /\ keyCode = "KEY_F2" => Away(uboParams.roughness) < MaxParamSteps
    /\ keyCode = "KEY_F4" => Away(uboParams.metallic) < MaxParamSteps

\* SpecParams: the scalars over their whole range
KeyInJointRange(keyCode) ==
    /\ keyCode \in {"KEY_F2", "KEY_F3"} => Away(uboParams.metallic) <= MaxJoint
    /\ keyCode \in {"KEY_F4", "KEY_F5"} => Away(uboParams.roughness) <= MaxJoint

Prepare ==
    \/ basePrepare
    \/ loadAssets
    \/ \E failAt \in 0..6 : prepareUniformBuffers(failAt)
    \/ \E failAt \in 0..2 : setupDescriptorSetLayout(failAt)
    \/ \E failAt \in 0..1 : preparePipelines(failAt)
    \/ \E failAt \in 0..4 : setupDescriptorSets(failAt)
    \/ \E failAt \in 0..(2 * NumImages) : prepareBuild(failAt)

\* every event; the API calls of the frame loop succeed
Next ==
    \/ Prepare
    \/ \E img \in 1..NumImages : render(img, 0)
    \/ viewChanged
    \/ \E keyCode \in KeyCodes : KeyInRange(keyCode) /\ keyPressed(keyCode, 0)
    \/ togglePause
    \/ timerTick
    \/ cameraMove

Spec == Init /\ [][Next]_vars

\* the events that reach uboParams, with every API call succeeding
NextParams ==
    \/ Prepare
    \/ \E img \in 1..NumImages : render(img, 0)
    \/ \E keyCode \in KeyCodes : KeyInJointRange(keyCode) /\ keyPressed(keyCode, 0)
    \/ togglePause

SpecParams == Init /\ [][NextParams]_vars

\* the events that make API calls, each of which may fail
NextFail ==
    \/ Prepare
    \/ \E img \in 1..NumImages, failAt \in 0..1 : render(img, failAt)
    \/ \E keyCode \in KeyCodes, failAt \in 0..(2 * NumImages) :
         KeyInRange(keyCode) /\ keyPressed(keyCode, failAt)
    \/ togglePause

SpecFail == Init /\ [][NextFail]_vars

(* ============================== claims ================================= *)
\* a key event that records no commands (no API call of its own can fail)
KeyStep(keyCode) == keyPressed(keyCode, 0)
ToggleStep ==
    /\ models'.objectIndex # models.objectIndex
    /\ \E keyCode \in {"KEY_SPACE", "GAMEPAD_BUTTON_X"}, failAt \in 0..(2 * NumImages) :
         keyPressed(keyCode, failAt)
RenderStep == \E img \in 1..NumImages, failAt \in 0..1 : render(img, failAt)
ObjectCount == Len(models.objects)
ParamsBuffer == uniformBuffers["params"].data
ObjectBuffer == uniformBuffers["object"].data

\* C1: once prepare() has set prepared, three objects are loaded and
\* models.objectIndex is one of 0, 1, 2, whatever events have followed.
C1_ObjectIndexValid ==
    prepared => /\ ObjectCount = 3
                /\ models.objectIndex \in 0..(ObjectCount - 1)

\* the last object is the active one
C1_Witness == prepared /\ models.objectIndex = 2

\* toggleObject applied n times to mdls
RECURSIVE ToggleTimes(_, _)
ToggleTimes(mdls, n) ==
    IF n = 0 THEN mdls
    ELSE ToggleTimes([mdls EXCEPT !.objectIndex = NextObjectIndex(mdls)], n - 1)

\* C2: every toggleObject() call moves the index from i to i + 1, and from
\* N - 1 to 0; from every index the program reaches, N calls lead back to
\* it, and fewer than N do not.
C2_ToggleCycles ==
    /\ [][ToggleStep =>
            models'.objectIndex = (models.objectIndex + 1) % ObjectCount]_vars
    /\ [](prepared =>
            /\ ToggleTimes(models, ObjectCount).objectIndex = models.objectIndex
            /\ \A n \in 1..(ObjectCount - 1) :
                 ToggleTimes(models, n).objectIndex # models.objectIndex)

\* the index is back at 0 and the last frame drew the last object
C2_Witness ==
    /\ prepared /\ models.objectIndex = 0
    /\ submitted # <<>> /\ submitted[4] = <<"vkCmdBindVertexBuffers", "venus.fbx">>

\* C3: roughness starts at 1.0f and stays within [0.05f, 1.0f]; F2 at 0.05f
\* and F3 at 1.0f leave it as it is.
C3_RoughnessBounded ==
    /\ [](uboParams.roughness >= F32_0_05 /\ uboParams.roughness <= F32_ONE)
    /\ [](pc = "VulkanExampleBase::prepare" => uboParams.roughness = F32_ONE)
    /\ [][(KeyStep("KEY_F2") /\ uboParams.roughness = F32_0_05)
            => uboParams'.roughness = F32_0_05]_vars
    /\ [][(KeyStep("KEY_F3") /\ uboParams.roughness = F32_ONE)
            => uboParams'.roughness = F32_ONE]_vars

\* roughness has been brought down to its lower limit
C3_Witness == prepared /\ uboParams.roughness = F32_0_05

\* C4: metallic starts at 1.0f and stays within [0.0f, 1.0f]; F4 at 0.0f and
\* F5 at 1.0f leave it as it is.
C4_MetallicBounded ==
    /\ [](uboParams.metallic >= F32_ZERO /\ uboParams.metallic <= F32_ONE)
    /\ [](pc = "VulkanExampleBase::prepare" => uboParams.metallic = F32_ONE)
    /\ [][(KeyStep("KEY_F4") /\ uboParams.metallic = F32_ZERO)
            => uboParams'.metallic = F32_ZERO]_vars
    /\ [][(KeyStep("KEY_F5") /\ uboParams.metallic = F32_ONE)
            => uboParams'.metallic = F32_ONE]_vars

\* metallic has been brought down to its lower limit
C4_Witness == prepared /\ uboParams.metallic = F32_ZERO

\* v is old + delta up to the rounding of one binary32 addition (half a
\* unit in the last place, at most 64 * 2^-30 below 2.0f), clamped to [lo, hi]
ChangedBy(v, old, delta, lo, hi) ==
    /\ clamp(old + delta - 64, lo, hi) <= v
    /\ v <= clamp(old + delta + 64, lo, hi)

\* C5: keyPressed dispatches: space and gamepad-X advance the object index
\* and leave both scalars; F2/F3 move roughness by -0.01/+0.01 and F4/F5
\* metallic by -0.01/+0.01 (clamped afterwards), leaving the other scalar
\* and the object index; any other key leaves all three.
C5_KeyDispatch ==
    [][/\ ToggleStep =>
            /\ models'.objectIndex = (models.objectIndex + 1) % ObjectCount
            /\ uboParams'.roughness = uboParams.roughness
            /\ uboParams'.metallic = uboParams.metallic
       /\ \A k \in {"KEY_F2", "KEY_F3"} : KeyStep(k) =>
            /\ ChangedBy(uboParams'.roughness, uboParams.roughness,
                         IF k = "KEY_F2" THEN 0 - F32_0_01 ELSE F32_0_01,
                         F32_0_05, F32_ONE)
            /\ uboParams'.metallic = uboParams.metallic
            /\ models'.objectIndex = models.objectIndex
       /\ \A k \in {"KEY_F4", "KEY_F5"} : KeyStep(k) =>
            /\ ChangedBy(uboParams'.metallic, uboParams.metallic,
                         IF k = "KEY_F4" THEN 0 - F32_0_01 ELSE F32_0_01,
                         F32_ZERO, F32_ONE)
            /\ uboParams'.roughness = uboParams.roughness
            /\ models'.objectIndex = models.objectIndex
       /\ KeyStep("KEY_P") =>
            /\ uboParams' = uboParams
            /\ models' = models
      ]_vars

\* each kind of key has acted: both scalars are below 1.0f, on object 1
C5_Witness ==
    /\ prepared /\ models.objectIndex = 1
    /\ uboParams.roughness < F32_ONE /\ uboParams.metallic < F32_ONE

\* the light positions of an unpaused updateLights at timer value t
AnimatedLights(t) ==
    << <<Sin20(t), -7500, Cos20(t), 1000>>,
       <<Cos20(t), Sin20(t), 15000, 1000>>,
       <<15000, -7500, 15000, 1000>>,
       <<15000, -7500, -15000, 1000>> >>

\* an unpaused frame leaves, in uboParams and in the mapped params buffer,
\* lights that are a function of the timer alone
C6_UnpausedLights ==
    [][(RenderStep /\ prepared /\ ~paused /\ ~aborted') =>
         /\ uboParams'.lights = AnimatedLights(timer)
         /\ ParamsBuffer'[1].lights = AnimatedLights(timer)]_vars

\* C6 as stated: unpaused frames write lights that depend on the timer
\* alone, and a frame rendered while paused shows the fixed configuration.
C6_Original ==
    /\ C6_UnpausedLights
    /\ [][(RenderStep /\ prepared /\ paused /\ ~aborted') =>
            /\ uboParams'.lights = PausedLights
            /\ ParamsBuffer'[1].lights = PausedLights]_vars

\* C6 amended: unpaused frames write lights that depend on the timer alone;
\* a frame rendered while paused writes no lights, so they stay as the last
\* unpaused frame left them; the fixed configuration is the one in place
\* from prepare() until the first frame.
C6_LightsFreezeWhenPaused ==
    /\ C6_UnpausedLights
    /\ [][(RenderStep /\ paused) =>
            /\ uboParams'.lights = uboParams.lights
            /\ ParamsBuffer' = ParamsBuffer]_vars
    /\ []((prepared /\ submitted = <<>>) =>
            /\ uboParams.lights = PausedLights
            /\ ParamsBuffer[1].lights = PausedLights)

\* paused again, with the lights where the animation left them
C6_Witness ==
    /\ prepared /\ paused /\ submitted # <<>>
    /\ uboParams.lights # PausedLights
    /\ ParamsBuffer[1].lights # PausedLights

\* commands 5..15 of a recorded buffer when the active object's file is file
ExpectedDraws(file) ==
    << <<"vkCmdBindVertexBuffers", file>>,
       <<"vkCmdBindIndexBuffer", file>>,
       <<"vkCmdBindDescriptorSets", materials.plastic.descriptorSet>>,
       <<"vkCmdPushConstants", <<0, 0, 0>> >>,
       <<"vkCmdDrawIndexed", file>>,
       <<"vkCmdBindDescriptorSets", materials.metal.descriptorSet>>,
       <<"vkCmdPushConstants", <<0, 0, 2500>> >>,
       <<"vkCmdDrawIndexed", file>>,
       <<"vkCmdBindDescriptorSets", materials.stone.descriptorSet>>,
       <<"vkCmdPushConstants", <<0, 0, -2500>> >>,
       <<"vkCmdDrawIndexed", file>> >>

DrawCount(cmds) ==
    Cardinality({j \in 1..Len(cmds) : cmds[j][1] = "vkCmdDrawIndexed"})

\* C7: while the program runs, every draw command buffer is recorded and
\* holds exactly three indexed draws, of the active object, with the plastic,
\* metal and stone sets at z = 0, 2.5, -2.5; every frame submitted draws the
\* object that is active at that time.
C7_CommandBuffersDrawActiveObject ==
    /\ []((prepared /\ ~aborted) =>
            \A i \in 1..NumImages :
              /\ drawCmdBuffers[i].state = "executable"
              /\ SubSeq(drawCmdBuffers[i].cmds, 5, 15)
                   = ExpectedDraws(ObjectFiles[models.objectIndex + 1])
              /\ DrawCount(drawCmdBuffers[i].cmds) = 3)
    /\ [][(RenderStep /\ prepared /\ ~aborted') =>
            SubSeq(submitted', 4, 14) = ExpectedDraws(ObjectFiles[models.objectIndex + 1])]_vars

\* a frame of the second object has been submitted after a toggle
C7_Witness ==
    /\ prepared /\ ~aborted /\ models.objectIndex = 1
    /\ submitted # <<>> /\ submitted[4] = <<"vkCmdBindVertexBuffers", "roundedcube.dae">>

SlotOfBinding ==
    [b \in 2..6 |-> CASE b = 2 -> "albedo" [] b = 3 -> "normal" [] b = 4 -> "roughness"
                      [] b = 5 -> "metallic" [] b = 6 -> "ao"]

\* C9: after prepare(), the three materials have three different descriptor
\* sets; each set binds the object and params buffers at 0 and 1 and its own
\* material's albedo, normal, roughness, metallic and ao textures at 2..6.
C9_DescriptorSetsPerMaterial ==
    prepared =>
      /\ Len(descriptorSets) = 3
      /\ \A m \in DOMAIN materials :
           /\ materials[m].descriptorSet \in 1..Len(descriptorSets)
           /\ \A o \in DOMAIN materials :
                materials[o].descriptorSet = materials[m].descriptorSet => o = m
           /\ LET set == descriptorSets[materials[m].descriptorSet]
              IN  /\ DOMAIN set = 0..6
                  /\ set[0] = <<"buffer", "object">>
                  /\ set[1] = <<"buffer", "params">>
                  /\ \A b \in 2..6 :
                       set[b] = <<"texture", m, SlotOfBinding[b],
                                  materials[m].textures[SlotOfBinding[b]]>>

\* prepared, with the stone set holding stone's own metallic texture
C9_Witness ==
    /\ prepared /\ materials.stone.descriptorSet = 3
    /\ descriptorSets[3][5] = <<"texture", "stone", "metallic", "_dummy_metallic_r8.ktx">>

\* the n-th effect of prepare(), in the order in which prepare() produces them
SetupSteps == 13 + 2 * NumImages
SetupDone(n) ==
    CASE n \in 1..3 -> uniformBuffers[BufferNames[n]].created
      [] n \in 4..6 -> uniformBuffers[BufferNames[n - 3]].mapped
      [] n = 7 -> ObjectBuffer # <<>> /\ ParamsBuffer # <<>>
      [] n = 8 -> descriptorSetLayout # <<>>
      [] n = 9 -> pipelineLayout # <<>>
      [] n = 10 -> pipeline # <<>>
      [] n = 11 -> descriptorPool # <<>>
      [] n \in 12..13 -> Len(descriptorSets) >= n - 11
      [] n >= 14 /\ n % 2 = 0 ->
            \* the last descriptor set, then each buffer ended
            IF n = 14 THEN Len(descriptorSets) >= 3
            ELSE drawCmdBuffers[(n - 14) \div 2].state = "executable"
      [] OTHER -> \* buffer (n - 13) \div 2 begun
            drawCmdBuffers[(n - 13) \div 2].cmds # <<>>

\* what the call failedCall would have produced had it succeeded
FailedEffect ==
    CASE failedCall \in {UniformBufferCalls[k] : k \in 1..6} ->
            SetupDone(CHOOSE k \in 1..6 : UniformBufferCalls[k] = failedCall)
      [] failedCall = "vkCreateDescriptorSetLayout" -> SetupDone(8)
      [] failedCall = "vkCreatePipelineLayout" -> SetupDone(9)
      [] failedCall = "vkCreateGraphicsPipelines" -> SetupDone(10)
      [] failedCall = "vkCreateDescriptorPool" -> SetupDone(11)
      [] failedCall = "vkAllocateDescriptorSets" -> SetupDone(14)
      [] failedCall \in {"vkBeginCommandBuffer", "vkEndCommandBuffer"} ->
            \A i \in 1..NumImages :
              /\ drawCmdBuffers[i].state = "executable"
              /\ SubSeq(drawCmdBuffers[i].cmds, 5, 15)
                   = ExpectedDraws(ObjectFiles[models.objectIndex + 1])
      [] OTHER -> FALSE

\* C10: a failing API call ends the program at that call: the program is
\* aborted whenever a call has failed, an aborted program takes no further
\* step, during prepare() no setup effect exists without the ones before it,
\* the failed call's effect is absent,
\* prepared is not set and no frame is submitted by a failed setup, and a
\* failed vkQueueSubmit submits nothing and updates no lights.
C10_FailureAborts ==
    /\ [](failedCall # "none" <=> aborted)
    /\ [][~aborted]_vars
    /\ [](\A n \in 2..SetupSteps :
            (pc \notin {"VulkanExampleBase::prepare", "running"} /\ SetupDone(n))
              => SetupDone(n - 1))
    /\ []((prepared /\ ~aborted) => \A n \in 1..SetupSteps : SetupDone(n))
    /\ [](aborted => ~FailedEffect)
    /\ []((aborted /\ pc # "running") => (~prepared /\ submitted = <<>>))
    /\ [][(aborted' /\ failedCall' = "vkQueueSubmit") =>
            (submitted' = submitted /\ uboParams' = uboParams
             /\ uniformBuffers' = uniformBuffers)]_vars

\* map() of the skybox buffer has failed: the object buffer is mapped, the
\* skybox and params buffers are not, nothing was written
C10_Witness ==
    /\ aborted /\ failedCall = "map(skybox)"
    /\ uniformBuffers["object"].mapped /\ ~uniformBuffers["params"].mapped
    /\ ObjectBuffer = <<>>

\* prepareUniformBuffers() has returned
UniformBuffersPrepared ==
    pc \notin {"VulkanExampleBase::prepare", "loadAssets", "prepareUniformBuffers"}

\* C11: from the return of prepareUniformBuffers() on, after every key event
\* and every render(), the mapped params buffer holds uboParams.roughness
\* and uboParams.metallic (before that it holds nothing); the write that an
\* unpaused render() makes for the lights carries the scalars as they were
\* before the frame, and a render() changes neither scalar.
C11_ParamsBufferCurrent ==
    /\ [](IF UniformBuffersPrepared
          THEN /\ ParamsBuffer # <<>>
               /\ ParamsBuffer[1].roughness = uboParams.roughness
               /\ ParamsBuffer[1].metallic = uboParams.metallic
          ELSE ParamsBuffer = <<>>)
    /\ [][(RenderStep /\ prepared /\ ~paused /\ ~aborted') =>
            /\ ParamsBuffer'[1].lights = AnimatedLights(timer)
            /\ ParamsBuffer'[1].roughness = uboParams.roughness
            /\ ParamsBuffer'[1].metallic = uboParams.metallic]_vars
    /\ [][RenderStep =>
            /\ uboParams'.roughness = uboParams.roughness
            /\ uboParams'.metallic = uboParams.metallic]_vars

\* both scalars were lowered and an animated frame has since written the
\* lights of a timer value other than the initial one
C11_Witness ==
    /\ prepared /\ ~paused /\ timer = 1
    /\ uboParams.roughness < F32_ONE /\ uboParams.metallic < F32_ONE
    /\ ParamsBuffer[1].lights = AnimatedLights(1)
    /\ ParamsBuffer[1].roughness = uboParams.roughness
    /\ ParamsBuffer[1].metallic = uboParams.metallic

\* the steps of prepare() in the order C12 gives them, then the frame loop
ClaimedOrder ==
    <<"VulkanExampleBase::prepare", "loadAssets", "prepareUniformBuffers",
      "setupDescriptorSetLayout", "preparePipelines", "setupDescriptorSets",
      "buildCommandBuffers", "running">>

\* the commands cmds use the pipeline, three allocated descriptor sets and
\* loaded models, and the buffers those sets refer to are mapped and written
UsesExisting(cmds) ==
    /\ pipeline # <<>>
    /\ \E j \in 1..Len(cmds) : cmds[j] = <<"vkCmdBindPipeline", pipeline>>
    /\ Len(descriptorSets) = 3
    /\ {cmds[j][2] : j \in {k \in 1..Len(cmds) : cmds[k][1] = "vkCmdBindDescriptorSets"}}
         = 1..Len(descriptorSets)
    /\ \A j \in 1..Len(cmds) :
         cmds[j][1] \in {"vkCmdBindVertexBuffers", "vkCmdBindIndexBuffer", "vkCmdDrawIndexed"}
           => \E o \in 1..Len(models.objects) : models.objects[o].file = cmds[j][2]
    /\ \A b \in {"object", "params"} :
         /\ uniformBuffers[b].created /\ uniformBuffers[b].mapped
         /\ uniformBuffers[b].data # <<>>

\* what each setup step has produced refers only to what existed before it
UsesOnlyEarlier ==
    /\ pipelineLayout # <<>> =>
         /\ descriptorSetLayout # <<>>
         /\ pipelineLayout[1].setLayouts = descriptorSetLayout
    /\ pipeline # <<>> =>
         /\ pipelineLayout # <<>>
         /\ pipeline[1].layout = pipelineLayout
    /\ \A h \in 1..Len(descriptorSets) :
         /\ descriptorPool # <<>> /\ descriptorSetLayout # <<>>
         /\ DOMAIN descriptorSets[h] = DOMAIN descriptorSetLayout[1]
         /\ Cardinality(DOMAIN materials) = 3
         /\ \A b \in 0..1 :
              /\ uniformBuffers[descriptorSets[h][b][2]].created
              /\ uniformBuffers[descriptorSets[h][b][2]].mapped
         /\ \A b \in 2..6 :
              descriptorSets[h][b][4]
                = materials[descriptorSets[h][b][2]].textures[descriptorSets[h][b][3]]
    /\ \A i \in 1..Len(drawCmdBuffers) :
         drawCmdBuffers[i].cmds # <<>> => UsesExisting(drawCmdBuffers[i].cmds)

\* C12: render() submits nothing while prepared is false; prepared is set
\* only by the last step of prepare(), whose steps run in the order asset
\* loading, uniform buffers, layouts, pipeline, descriptor sets, command
\* buffers, none of them twice; every frame submitted is an executable
\* command buffer that uses the existing pipeline, the three descriptor sets
\* and the mapped, written uniform buffers; and what a setup step produced
\* refers only to resources of earlier steps.
C12_PreparedBeforeFrames ==
    /\ [][(RenderStep /\ ~prepared) => UNCHANGED vars]_vars
    /\ [](submitted # <<>> => prepared)
    /\ [][pc' # pc =>
            \E n \in 1..(Len(ClaimedOrder) - 1) :
              pc = ClaimedOrder[n] /\ pc' = ClaimedOrder[n + 1]]_vars
    /\ [][prepared' # prepared =>
            /\ prepared' /\ ~aborted'
            /\ pc = "buildCommandBuffers" /\ pc' = "running"]_vars
    /\ [](prepared <=> pc = "running")
    /\ [][(RenderStep /\ prepared /\ ~aborted') =>
            \E i \in 1..NumImages :
              /\ drawCmdBuffers[i].state = "executable"
              /\ submitted' = InRenderPass(drawCmdBuffers[i].cmds)
              /\ UsesExisting(drawCmdBuffers[i].cmds)]_vars
    /\ [](submitted # <<>> => UsesExisting(submitted))
    /\ []UsesOnlyEarlier

\* a frame has been submitted: one of the recorded command buffers, binding
\* the pipeline that preparePipelines() created with the pipeline layout
C12_Witness ==
    /\ prepared /\ ~aborted /\ submitted # <<>>
    /\ \E i \in 1..NumImages : submitted = InRenderPass(drawCmdBuffers[i].cmds)
    /\ submitted[3] = <<"vkCmdBindPipeline", pipeline>>
    /\ pipeline[1].layout = pipelineLayout /\ pipelineLayout # <<>>

====
